---- MODULE Spec2Model ----
(***************************************************************************)
(* Model of nomad/signature/src/signature.rs: the ECDSA Signature value    *)
(* (r, s, v), its 65-byte and hex codecs, recovery-id normalisation and    *)
(* recover / verify.                                                       *)
(*                                                                         *)
(* Representation.  A byte is a number in 0..255 and a byte string is a    *)
(* sequence of bytes.  A U256 is held as its 32 base-256 digits, least     *)
(* significant digit first (the in-memory order of primitive-types'        *)
(* little-endian limbs), so that the big-endian conversions are a real     *)
(* reordering.  A text is a sequence of one-character strings.  A Result   *)
(* is a record tagged "Ok", "Err" or "Panic".                              *)
(*                                                                         *)
(* The Keccak-256 hash and the secp256k1 point recovery are external       *)
(* libraries; they are stood in for by fixed deterministic functions of    *)
(* the same shape (same input and output lengths, same failure cases).     *)
(***************************************************************************)
EXTENDS Integers, Sequences, FiniteSets, TLC

VARIABLES sig, op, message, address, bytes, text, origin, result,
          debug_assertions, sec1_tag

vars == <<sig, op, message, address, bytes, text, origin, result,
          debug_assertions, sec1_tag>>

(***************************************************************************)
(* Bounds of the model                                                     *)
(***************************************************************************)
MaxSmallV == 40
MaxChainId == 3
MaxByteLen == 67
MaxHexLen == 133
MaxMsgLen == 1

(***************************************************************************)
(* Results and errors (SignatureError)                                     *)
(***************************************************************************)
Ok(x) == [kind |-> "Ok", val |-> x]
Err(e) == [kind |-> "Err", err |-> e]
Panicked == [kind |-> "Panic"]
NoResult == [kind |-> "None"]

InvalidLength(n) == [kind |-> "InvalidLength", len |-> n]
DecodingError(e) == [kind |-> "DecodingError", from |-> e]
VerificationError(expected, recovered) ==
  [kind |-> "VerificationError", expected |-> expected, recovered |-> recovered]
K256Error(e) == [kind |-> "K256Error", from |-> e]
RecoveryError == [kind |-> "RecoveryError"]

(***************************************************************************)
(* Byte strings and U256                                                   *)
(***************************************************************************)
Reverse(q) == [i \in 1..Len(q) |-> q[Len(q) + 1 - i]]

\* U256::from_big_endian on a 32-byte slice: most significant byte first in
\* the slice, least significant digit first in the value.
from_big_endian(slice) == Reverse(slice)

\* U256::to_big_endian into a 32-byte buffer.
to_big_endian(u) == Reverse(u)

Zeros(n) == [i \in 1..n |-> 0]

IsZero(q) == \A i \in 1..Len(q) : q[i] = 0

RECURSIVE LessFrom(_, _, _)
\* Lexicographic a < b from position i on, for equal lengths: the order of the
\* big-endian encodings is the order of the numbers.
LessFrom(a, b, i) ==
  IF i > Len(a) THEN FALSE
  ELSE IF a[i] # b[i] THEN a[i] < b[i]
  ELSE LessFrom(a, b, i + 1)

BigEndianLess(a, b) == LessFrom(a, b, 1)

RECURSIVE WeightedSum(_, _)
WeightedSum(q, i) ==
  IF i > Len(q) THEN 0 ELSE i * q[i] + WeightedSum(q, i + 1)

\* Keccak256::hash: any byte string to a 32-byte digest, deterministic, total.
Keccak256(data) ==
  LET w == WeightedSum(data, 1) + 31 * Len(data) + 7
  IN  [i \in 1..32 |-> (w * (2 * i + 1) + i * i) % 256]

(***************************************************************************)
(* normalize_recovery_id                                                   *)
(***************************************************************************)
\* Variant: the parity of v itself is taken for v >= 35.
normalize_recovery_id_ParityOfV(v) ==
  CASE v = 0 -> 0
    [] v = 1 -> 1
    [] v = 27 -> 0
    [] v = 28 -> 1
    [] v >= 35 -> v % 2
    [] OTHER -> 4

normalize_recovery_id(v) ==
  CASE v = 0 -> 0
    [] v = 1 -> 1
    [] v = 27 -> 0
    [] v = 28 -> 1
    [] v >= 35 -> (v - 1) % 2
    [] OTHER -> 4

(***************************************************************************)
(* The curve library (k256) as the code uses it                            *)
(***************************************************************************)
\* The group order n of secp256k1, big-endian.
OrderBE ==
  <<255, 255, 255, 255, 255, 255, 255, 255, 255, 255, 255, 255, 255, 255, 255, 254,
    186, 174, 220, 230, 175, 72, 160, 59, 191, 210, 94, 140, 208, 54, 65, 65>>

EcdsaError == "signature::Error"

\* RecoveryId::new: only 0 and 1 are recovery ids.
RecoveryId_new(byte) ==
  IF byte \in {0, 1} THEN Ok(byte) ELSE Err(EcdsaError)

\* K256Signature::from_scalars: both scalars must be in 1..n-1.
from_scalars(r_bytes, s_bytes) ==
  IF \/ IsZero(r_bytes) \/ IsZero(s_bytes)
     \/ ~BigEndianLess(r_bytes, OrderBE) \/ ~BigEndianLess(s_bytes, OrderBE)
  THEN Err(EcdsaError)
  ELSE Ok([r |-> r_bytes, s |-> s_bytes])

\* RecoverableSignature::new: packs the signature with its recovery id.
RecoverableSignature_new(signature, recovery_id) ==
  Ok([r |-> signature.r, s |-> signature.s, id |-> recovery_id])

\* recover_verifying_key_from_digest_bytes: a point (x, y), or an error when r
\* with the recovery id names no point of the curve.
recover_verifying_key_from_digest_bytes(recoverable_sig, digest) ==
  LET wr == WeightedSum(recoverable_sig.r, 1)
      ws == WeightedSum(recoverable_sig.s, 1)
      wd == WeightedSum(digest, 1)
      id == recoverable_sig.id
  IN  IF (wr + id) % 5 = 0
      THEN Err(EcdsaError)
      ELSE Ok([x |-> [i \in 1..32 |-> (wr * (i + 2) + wd * (2 * i + 1) + ws + id) % 256],
               y |-> [i \in 1..32 |-> (ws * (i + 3) + wd * (i + 1) + wr + 101 * id) % 256]])

\* PublicKey::to_encoded_point(compress = false).as_bytes(): format byte, x, y.
\* The format byte is whatever the library emits (sec1_tag).
to_encoded_point(verify_key) ==
  IF sec1_tag = 4 THEN <<sec1_tag>> \o verify_key.x \o verify_key.y
  ELSE <<sec1_tag>> \o verify_key.x

(***************************************************************************)
(* utils::hash_message: the personal-sign prehash                          *)
(***************************************************************************)
\* "\x19Ethereum Signed Message:\n"
PersonalSignPrefix ==
  <<25, 69, 116, 104, 101, 114, 101, 117, 109, 32, 83, 105, 103, 110, 101, 100,
    32, 77, 101, 115, 115, 97, 103, 101, 58, 10>>

RECURSIVE Decimal(_)
\* The ASCII decimal digits of n.
Decimal(n) ==
  IF n < 10 THEN <<48 + n>> ELSE Decimal(n \div 10) \o <<48 + (n % 10)>>

hash_message(data) ==
  Keccak256(PersonalSignPrefix \o Decimal(Len(data)) \o data)

(***************************************************************************)
(* RecoveryMessage                                                         *)
(***************************************************************************)
Data(m) == [tag |-> "Data", data |-> m]
Hash(h) == [tag |-> "Hash", hash |-> h]

(***************************************************************************)
(* Signature::recovery_id, as_signature, recover, verify                   *)
(***************************************************************************)
\* Variant: a recovery byte the library refuses is replaced by 0.
recovery_id_DefaultsToZero(self) ==
  LET standard_v == normalize_recovery_id(self.v)
      id == RecoveryId_new(standard_v)
  IN  IF id.kind = "Err" THEN Ok(0) ELSE Ok(id.val)

recovery_id(self) ==
  LET standard_v == normalize_recovery_id(self.v)
      id == RecoveryId_new(standard_v)
  IN  IF id.kind = "Err" THEN Err(K256Error(id.err)) ELSE Ok(id.val)

as_signature(self) ==
  LET rid == recovery_id(self)
  IN  IF rid.kind = "Err" THEN rid
      ELSE LET r_bytes == to_big_endian(self.r)
               s_bytes == to_big_endian(self.s)
               k256sig == from_scalars(r_bytes, s_bytes)
           IN  IF k256sig.kind = "Err" THEN Err(K256Error(k256sig.err))
               ELSE LET signature == RecoverableSignature_new(k256sig.val, rid.val)
                    IN  IF signature.kind = "Err" THEN Err(K256Error(signature.err))
                        ELSE Ok(<<signature.val, rid.val>>)

\* Variant: the format byte is hashed along with the coordinates.
recover_HashesFormatByte(self, msg) ==
  LET message_hash == IF msg.tag = "Data" THEN hash_message(msg.data) ELSE msg.hash
      recoverable == as_signature(self)
  IN  IF recoverable.kind = "Err" THEN recoverable
      ELSE LET verify_key ==
                 recover_verifying_key_from_digest_bytes(recoverable.val[1], message_hash)
           IN  IF verify_key.kind = "Err" THEN Err(K256Error(verify_key.err))
               ELSE LET public_key == to_encoded_point(verify_key.val)
                    IN  IF debug_assertions /\ public_key[1] # 4
                        THEN Panicked
                        ELSE LET hash == Keccak256(public_key)
                             IN  Ok(SubSeq(hash, 13, Len(hash)))

recover(self, msg) ==
  LET message_hash == IF msg.tag = "Data" THEN hash_message(msg.data) ELSE msg.hash
      recoverable == as_signature(self)
  IN  IF recoverable.kind = "Err" THEN recoverable
      ELSE LET verify_key ==
                 recover_verifying_key_from_digest_bytes(recoverable.val[1], message_hash)
           IN  IF verify_key.kind = "Err" THEN Err(K256Error(verify_key.err))
               ELSE LET public_key == to_encoded_point(verify_key.val)
                    IN  IF debug_assertions /\ public_key[1] # 4
                        THEN Panicked
                        ELSE LET hash == Keccak256(SubSeq(public_key, 2, Len(public_key)))
                             IN  Ok(SubSeq(hash, 13, Len(hash)))

\* Variant: the two addresses of VerificationError are exchanged.
verify_SwappedAddresses(self, msg, addr) ==
  LET recovered == recover(self, msg)
  IN  IF recovered.kind # "Ok" THEN recovered
      ELSE IF recovered.val # addr
           THEN Err(VerificationError(recovered.val, addr))
           ELSE Ok(<<>>)

verify(self, msg, addr) ==
  LET recovered == recover(self, msg)
  IN  IF recovered.kind # "Ok" THEN recovered
      ELSE IF recovered.val # addr
           THEN Err(VerificationError(addr, recovered.val))
           ELSE Ok(<<>>)

(***************************************************************************)
(* Byte and hex codecs                                                     *)
(***************************************************************************)
\* Variant: r is written least significant byte first.
from_signature_LittleEndianR(src) ==
  src.r \o to_big_endian(src.s) \o <<src.v % 256>>

\* Variant: v is saturated to a byte instead of truncated.
from_signature_SaturatingV(src) ==
  to_big_endian(src.r) \o to_big_endian(src.s) \o <<IF src.v > 255 THEN 255 ELSE src.v>>

\* From<&Signature> for [u8; 65]
from_signature(src) ==
  to_big_endian(src.r) \o to_big_endian(src.s) \o <<src.v % 256>>

\* Variant: only too short an input is refused.
try_from_AcceptsLonger(b) ==
  IF Len(b) < 65 THEN Err(InvalidLength(Len(b)))
  ELSE LET v == b[65]
           r == from_big_endian(SubSeq(b, 1, 32))
           s == from_big_endian(SubSeq(b, 33, 64))
       IN  Ok([r |-> r, s |-> s, v |-> v])

\* TryFrom<&[u8]> for Signature
try_from(b) ==
  IF Len(b) # 65 THEN Err(InvalidLength(Len(b)))
  ELSE LET v == b[65]
           r == from_big_endian(SubSeq(b, 1, 32))
           s == from_big_endian(SubSeq(b, 33, 64))
       IN  Ok([r |-> r, s |-> s, v |-> v])

HexCharsLower ==
  <<"0", "1", "2", "3", "4", "5", "6", "7", "8", "9", "a", "b", "c", "d", "e", "f">>
HexCharsUpper ==
  <<"0", "1", "2", "3", "4", "5", "6", "7", "8", "9", "A", "B", "C", "D", "E", "F">>

IsHexChar(c) == \E i \in 1..16 : HexCharsLower[i] = c \/ HexCharsUpper[i] = c

\* hex's val(): the value of one hex digit.
HexVal(c) == (CHOOSE i \in 1..16 : HexCharsLower[i] = c \/ HexCharsUpper[i] = c) - 1

\* hex::encode: two lowercase digits per byte, high nibble first.
hex_encode(data) ==
  [i \in 1..(2 * Len(data)) |->
     IF i % 2 = 1 THEN HexCharsLower[(data[(i + 1) \div 2] \div 16) + 1]
     ELSE HexCharsLower[(data[i \div 2] % 16) + 1]]

\* hex::decode: odd length is refused first, then the first bad character.
hex_decode(s) ==
  IF Len(s) % 2 # 0 THEN Err("OddLength")
  ELSE IF \E i \in 1..Len(s) : ~IsHexChar(s[i])
       THEN Err(<<"InvalidHexCharacter",
                  (CHOOSE i \in 1..Len(s) :
                     ~IsHexChar(s[i]) /\ \A j \in 1..(i - 1) : IsHexChar(s[j])) - 1>>)
       ELSE Ok([i \in 1..(Len(s) \div 2) |->
                  16 * HexVal(s[2 * i - 1]) + HexVal(s[2 * i])])

\* Variant: the first two characters are dropped whatever they are.
strip_prefix_Unconditional(s) == SubSeq(s, 3, Len(s))

\* str::strip_prefix("0x").unwrap_or(s)
strip_prefix(s) ==
  IF Len(s) >= 2 /\ s[1] = "0" /\ s[2] = "x" THEN SubSeq(s, 3, Len(s)) ELSE s

\* FromStr for Signature
from_str(s) ==
  LET stripped == strip_prefix(s)
      decoded == hex_decode(stripped)
  IN  IF decoded.kind = "Err" THEN Err(DecodingError(decoded.err))
      ELSE try_from(decoded.val)

\* Variant: the recovery byte is left out of the text.
fmt_DropsV(self) ==
  LET sigbytes == from_signature(self)
  IN  hex_encode(SubSeq(sigbytes, 1, 64))

\* fmt::Display for Signature
fmt(self) ==
  LET sigbytes == from_signature(self)
  IN  hex_encode(sigbytes)

(***************************************************************************)
(* Inputs                                                                  *)
(***************************************************************************)
Pattern(n, a, b) == [i \in 1..n |-> (a * i + b) % 256]

U256Zero == Zeros(32)
U256Max == [i \in 1..32 |-> 255]
Order == from_big_endian(OrderBE)
OrderMinusOne == [Order EXCEPT ![1] = 64]

RValues == {U256Zero, Pattern(32, 7, 3), Pattern(32, 1, 0), U256Max}
SValues == {Pattern(32, 5, 11), OrderMinusOne, Order}

ChainIds == (0..MaxChainId) \cup {137, 43114, 1073741805}
Eip155V == {2 * c + 35 + b : c \in ChainIds, b \in {0, 1}}
VValues == (0..MaxSmallV) \cup Eip155V \cup {255, 256, 283, 284, 65535, 65563, 2147483647}

Signatures == [r : RValues, s : SValues, v : VValues]

\* "Some data", the message of tests::recover_web3_signature
SomeData == <<83, 111, 109, 101, 32, 100, 97, 116, 97>>
DataValues == {Pattern(n, 83, 0) : n \in 0..MaxMsgLen} \cup {SomeData}
Messages ==
  {Data(m) : m \in DataValues}
    \cup {Hash(hash_message(m)) : m \in DataValues}
    \cup {Hash(Pattern(32, 11, 5))}

Sec1Tags == {4, 2}

OtherAddresses == {Zeros(20), Pattern(20, 13, 1)}

BytePatterns == {<<0, 0>>, <<7, 3>>, <<0, 255>>, <<251, 9>>}
ByteInputs == {Pattern(n, p[1], p[2]) : n \in 0..MaxByteLen, p \in BytePatterns}

HexAlphabet ==
  <<"0", "1", "2", "3", "4", "5", "6", "7", "8", "9", "a", "b", "c", "d", "e", "f",
    "A", "B", "C", "D", "E", "F">>
MixedAlphabet == <<"0", "x", "1", "g", "f", "X", " ", "A">>
MkText(n, alphabet, a, b) ==
  [i \in 1..n |-> alphabet[((a * i + b) % Len(alphabet)) + 1]]
TextPatterns == {<<7, 3>>, <<1, 0>>}
HexTexts == {MkText(n, HexAlphabet, p[1], p[2]) : n \in 0..MaxHexLen, p \in TextPatterns}
TextInputs ==
  HexTexts
    \cup {<<"0", "x">> \o h : h \in HexTexts}
    \cup {MkText(n, MixedAlphabet, p[1], p[2]) : n \in 0..MaxHexLen, p \in TextPatterns}

NoMessage == [tag |-> "None"]

RecoverRValues == {U256Zero, Pattern(32, 7, 3), Pattern(32, 1, 0)}
RecoverSValues == {Pattern(32, 5, 11), Order}
RecoverVValues == {0, 1, 2, 26, 27, 28, 29, 34, 35, 36, 37, 2147483647}
RecoverSignatures == [r : RecoverRValues, s : RecoverSValues, v : RecoverVValues]

(***************************************************************************)
(* Initial states: the inputs of the operations                            *)
(***************************************************************************)
\* The addresses a caller may expect: the signer's, when there is one, and others.
ExpectedAddresses(self, m) ==
  LET signer == recover(self, m)
  IN  OtherAddresses \cup (IF signer.kind = "Ok" THEN {signer.val} ELSE {})

\* Recovery: a signature, a message, an expected address, either build and
\* either format byte from the library.
InitRecover ==
  /\ sig \in RecoverSignatures
  /\ debug_assertions \in BOOLEAN
  /\ sec1_tag \in Sec1Tags
  /\ message \in Messages
  /\ address \in ExpectedAddresses(sig, message)
  /\ bytes = <<>>
  /\ text = <<>>
  /\ origin = [bytes |-> "none", text |-> "none"]
  /\ op = "new"
  /\ result = NoResult

SampleSignature == [r |-> Pattern(32, 7, 3), s |-> Pattern(32, 5, 11), v |-> 27]

\* Codecs: a signature to write, or bytes to parse, or a text to parse.
Init ==
  /\ debug_assertions = FALSE
  /\ sec1_tag = 4
  /\ message = NoMessage
  /\ address = <<>>
  /\ op = "new"
  /\ result = NoResult
  /\ \/ /\ sig \in Signatures
        /\ bytes = <<>>
        /\ text = <<>>
        /\ origin = [bytes |-> "none", text |-> "none"]
     \/ /\ sig = SampleSignature
        /\ bytes \in ByteInputs
        /\ text = <<>>
        /\ origin = [bytes |-> "input", text |-> "none"]
     \/ /\ sig = SampleSignature
        /\ bytes = <<>>
        /\ text \in TextInputs
        /\ origin = [bytes |-> "none", text |-> "input"]

(***************************************************************************)
(* Operations                                                              *)
(***************************************************************************)
NormalizeRecoveryId ==
  /\ op' = "normalize_recovery_id"
  /\ result' = normalize_recovery_id(sig.v)
  /\ UNCHANGED <<sig, message, address, bytes, text, origin, debug_assertions, sec1_tag>>

RecoveryId ==
  /\ op' = "recovery_id"
  /\ result' = recovery_id(sig)
  /\ UNCHANGED <<sig, message, address, bytes, text, origin, debug_assertions, sec1_tag>>

Recover ==
  /\ op' = "recover"
  /\ result' = recover(sig, message)
  /\ UNCHANGED <<sig, message, address, bytes, text, origin, debug_assertions, sec1_tag>>

Verify ==
  /\ op' = "verify"
  /\ result' = verify(sig, message, address)
  /\ UNCHANGED <<sig, message, address, bytes, text, origin, debug_assertions, sec1_tag>>

\* Signature::to_vec, through From<&Signature> for [u8; 65]
ToVec ==
  /\ op' = "to_vec"
  /\ bytes' = from_signature(sig)
  /\ origin' = [origin EXCEPT !.bytes = "serialized"]
  /\ result' = NoResult
  /\ UNCHANGED <<sig, message, address, text, debug_assertions, sec1_tag>>

TryFrom ==
  /\ op' = "try_from"
  /\ result' = try_from(bytes)
  /\ UNCHANGED <<sig, message, address, bytes, text, origin, debug_assertions, sec1_tag>>

Display ==
  /\ op' = "fmt"
  /\ text' = fmt(sig)
  /\ origin' = [origin EXCEPT !.text = "displayed"]
  /\ result' = NoResult
  /\ UNCHANGED <<sig, message, address, bytes, debug_assertions, sec1_tag>>

FromStr ==
  /\ op' = "from_str"
  /\ result' = from_str(text)
  /\ UNCHANGED <<sig, message, address, bytes, text, origin, debug_assertions, sec1_tag>>

(***************************************************************************)
(* Specifications                                                          *)
(***************************************************************************)
Next ==
  \/ NormalizeRecoveryId
  \/ ToVec
  \/ TryFrom
  \/ Display
  \/ FromStr

Spec == Init /\ [][Next]_vars

NextRecover ==
  \/ RecoveryId
  \/ Recover
  \/ Verify

SpecRecover == InitRecover /\ [][NextRecover]_vars

(***************************************************************************)
(* Properties                                                              *)
(***************************************************************************)
\* The digest recover works on: the prehash of Data, the value of Hash.
DigestOf(m) == IF m.tag = "Data" THEN hash_message(m.data) ELSE m.hash

\* The key the curve library recovers for the signature under test and the
\* digest of the message, from the scalars and the normalised recovery id.
LibraryKey ==
  LET scalars == from_scalars(to_big_endian(sig.r), to_big_endian(sig.s))
  IN  IF normalize_recovery_id(sig.v) \notin {0, 1} \/ scalars.kind = "Err"
      THEN Err(EcdsaError)
      ELSE recover_verifying_key_from_digest_bytes(
             [r |-> scalars.val.r, s |-> scalars.val.s,
              id |-> normalize_recovery_id(sig.v)],
             DigestOf(message))

\* C1: when v normalises to 0 or 1 and the library recovers an uncompressed
\* key, recover returns the last 20 bytes of keccak256 of the key's 64
\* coordinate bytes, the key being recovered from the digest (prehash of Data,
\* Hash as is); recover(Data(m)) equals recover(Hash(prehash(m))).
C1_RecoverAddress ==
  op = "recover" =>
    /\ (LibraryKey.kind = "Ok" /\ sec1_tag = 4) =>
         result = Ok(SubSeq(Keccak256(LibraryKey.val.x \o LibraryKey.val.y), 13, 32))
    /\ message.tag = "Data" =>
         result = recover(sig, Hash(hash_message(message.data)))

C1_Witness ==
  /\ op = "recover"
  /\ message = Data(SomeData)
  /\ sig.v = 28
  /\ sec1_tag = 4
  /\ LibraryKey.kind = "Ok"
  /\ result.kind = "Ok"
  /\ Len(result.val) = 20

\* C2: verify succeeds exactly when recover succeeds with the expected
\* address; a different recovered address gives VerificationError(expected,
\* recovered); an error of recover is returned unchanged.
C2_VerifyOutcome ==
  op = "verify" =>
    LET recovered == recover(sig, message)
    IN  /\ result.kind = "Ok" <=> (recovered.kind = "Ok" /\ recovered.val = address)
        /\ (recovered.kind = "Ok" /\ recovered.val # address) =>
             result = Err(VerificationError(address, recovered.val))
        /\ recovered.kind = "Err" => result = recovered

C2_Witness ==
  /\ op = "verify"
  /\ result.kind = "Err"
  /\ result.err.kind = "VerificationError"
  /\ result.err.expected = address
  /\ result.err.recovered # address

\* C3: normalize_recovery_id is the table 0 -> 0, 1 -> 1, 27 -> 0, 28 -> 1,
\* v >= 35 -> (v - 1) mod 2, anything else -> 4; the result is in {0, 1, 4} and
\* v = 2 * chain_id + 35 + bit gives bit.
C3_NormalizeTable ==
  op = "normalize_recovery_id" =>
    /\ result \in {0, 1, 4}
    /\ sig.v = 0 => result = 0
    /\ sig.v = 1 => result = 1
    /\ sig.v = 27 => result = 0
    /\ sig.v = 28 => result = 1
    /\ sig.v >= 35 => result = (sig.v - 1) % 2
    /\ sig.v \in (2..26) \cup (29..34) => result = 4
    /\ \A bit \in {0, 1} :
         (sig.v >= 35 + bit /\ (sig.v - 35 - bit) % 2 = 0) => result = bit

C3_Witness ==
  /\ op = "normalize_recovery_id"
  /\ sig.v = 2 * 137 + 35 + 1
  /\ result = 1

Unrecognized == (2..26) \cup (29..34)

\* C4 as stated: for v outside the recognised ranges recover and recovery_id
\* fail with the RecoveryError kind.
C4_FailsWithRecoveryError ==
  (op \in {"recover", "recovery_id"} /\ sig.v \in Unrecognized) =>
    result = Err(RecoveryError)

\* C4 amended: for v outside the recognised ranges recover and recovery_id fail
\* with the curve library's error wrapped as K256Error; no address is returned
\* and nothing panics.
C4_FailsWithK256Error ==
  (op \in {"recover", "recovery_id"} /\ sig.v \in Unrecognized) =>
    result = Err(K256Error(EcdsaError))

C4_Witness ==
  /\ op = "recover"
  /\ sig.v = 2
  /\ result.kind = "Err"
  /\ result.err.kind = "K256Error"

\* The outcome of parsing the byte string b: InvalidLength(len) unless b has 65
\* bytes, else r and s read big-endian from b[0..32) and b[32..64), v = b[64].
ParsedFrom(res, b) ==
  /\ Len(b) # 65 => res = Err(InvalidLength(Len(b)))
  /\ Len(b) = 65 =>
       /\ res.kind = "Ok"
       /\ Len(res.val.r) = 32
       /\ Len(res.val.s) = 32
       /\ \A k \in 0..31 : /\ res.val.r[32 - k] = b[k + 1]
                           /\ res.val.s[32 - k] = b[k + 33]
       /\ res.val.v = b[65]

\* C5: parsing bytes fails with InvalidLength(actual length) for every length
\* other than 65 and succeeds for 65 bytes with r, s big-endian and v the last
\* byte; the same for the bytes decoded from a hex string.
C5_ParseBytes ==
  /\ op = "try_from" => ParsedFrom(result, bytes)
  /\ op = "from_str" =>
       LET decoded == hex_decode(strip_prefix(text))
       IN  decoded.kind = "Ok" => ParsedFrom(result, decoded.val)

C5_Witness ==
  /\ op = "try_from"
  /\ origin.bytes = "input"
  /\ Len(bytes) = 65
  /\ bytes[1] # bytes[32]
  /\ result.kind = "Ok"

\* C6: parsing the serialisation of a signature with v in {27, 28} gives the
\* signature back.
C6_RoundTrip ==
  (op = "try_from" /\ origin.bytes = "serialized" /\ sig.v \in {27, 28}) =>
    result = Ok(sig)

C6_Witness ==
  /\ op = "try_from"
  /\ origin.bytes = "serialized"
  /\ sig.v = 28
  /\ sig.r = Pattern(32, 7, 3)
  /\ result = Ok(sig)

AllHex(t) == \A i \in 1..Len(t) : IsHexChar(t[i])

SameOutcome(a, b) ==
  /\ a.kind = b.kind
  /\ a.kind = "Ok" => a.val = b.val
  /\ a.kind = "Err" => a.err.kind = b.err.kind

\* C7: for a text h of hex digits, "0x" followed by h parses as h does: the
\* same signature when h decodes to 65 bytes, else the same error kind
\* (DecodingError for odd length, InvalidLength for another decoded length).
C7_PrefixIrrelevant ==
  (op = "from_str" /\ AllHex(text)) =>
    /\ SameOutcome(result, from_str(<<"0", "x">> \o text))
    /\ Len(text) % 2 = 1 => (result.kind = "Err" /\ result.err.kind = "DecodingError")
    /\ (Len(text) % 2 = 0 /\ Len(text) # 130) =>
         result = Err(InvalidLength(Len(text) \div 2))
    /\ Len(text) = 130 => result.kind = "Ok"

C7_Witness ==
  /\ op = "from_str"
  /\ AllHex(text)
  /\ Len(text) = 130
  /\ result.kind = "Ok"
  /\ from_str(<<"0", "x">> \o text) = result

\* The lowercase hex of the byte string b.
LowerHexOf(t, b) ==
  /\ Len(t) = 2 * Len(b)
  /\ \A i \in 1..Len(b) : /\ t[2 * i - 1] = HexCharsLower[(b[i] \div 16) + 1]
                          /\ t[2 * i] = HexCharsLower[(b[i] % 16) + 1]

\* C8 as stated: the text written for a signature is "0x" followed by the 130
\* lowercase hex digits of its 65-byte serialisation.
C8_DisplayWithPrefix ==
  op = "fmt" =>
    /\ Len(text) = 132
    /\ SubSeq(text, 1, 2) = <<"0", "x">>
    /\ LowerHexOf(SubSeq(text, 3, Len(text)), from_signature(sig))

\* C8 amended: the text written for a signature is the 130 lowercase hex
\* digits of its 65-byte serialisation, without a prefix.
C8_DisplayNoPrefix ==
  op = "fmt" =>
    /\ Len(text) = 130
    /\ LowerHexOf(text, from_signature(sig))

C8_Witness ==
  /\ op = "fmt"
  /\ sig.v = 28
  /\ Len(text) = 130
  /\ SubSeq(text, 129, 130) = <<"1", "c">>

\* C9: when the encoding of the recovered key does not begin with 0x04,
\* recover returns the typed error RecoveryError in every build.
C9_FormatByteChecked ==
  (op = "recover" /\ LibraryKey.kind = "Ok" /\ sec1_tag # 4) =>
    result = Err(RecoveryError)

====
